---- MODULE Spec2Model ----
(***************************************************************************)
(* A model of src/nix/installables.cc: the command-line options that       *)
(* select the lock-file mode, the parser of installables, the resolution   *)
(* of flake installables through the evaluation cache, the flake-closure   *)
(* GC root, the consolidation of buildables and build().                   *)
(*                                                                         *)
(* Strings are sequences of tokens.  A token is one character, except      *)
(* "nixpkgs." (the eight characters the parser tests as a prefix) and the  *)
(* attribute-path prefixes, which are kept whole.                          *)
(***************************************************************************)
EXTENDS Integers, Sequences, FiniteSets, TLC

VARIABLES
    \* MixFlakeOptions / SourceExprCommand (the command object)
    recreateLockFile, saveLockFile, useRegistries, file, lockFileMode,
    \* SourceExprCommand::parseInstallables
    args, pureEval, parsed,
    \* InstallableValue::toBuildables
    drvs, buildables,
    \* build, toStorePaths
    readOnlyMode, built, storePaths,
    \* makeFlakeClosureGCRoot
    origFlakeRef, lockFile, validDeps, wpc, queue, closure, pops, gcRoot,
    \* InstallableFlake: the lock state and outputs of the flake, the
    \* evaluation cache, the store, and what the last resolution did
    fingerprint, flakeOutputs, evalCache, validPaths, last

optVars == <<recreateLockFile, saveLockFile, useRegistries, file, lockFileMode>>
parseVars == <<args, pureEval, parsed>>
valueVars == <<drvs, buildables>>
buildVars == <<readOnlyMode, built, storePaths>>
walkVars == <<origFlakeRef, lockFile, validDeps, wpc, queue, closure, pops, gcRoot>>
flakeVars == <<fingerprint, flakeOutputs, evalCache, validPaths, last>>
vars == <<optVars, parseVars, valueVars, buildVars, walkVars, flakeVars>>
exceptOpt == <<parseVars, valueVars, buildVars, walkVars, flakeVars>>
exceptParse == <<optVars, valueVars, buildVars, walkVars, flakeVars>>
exceptValue == <<optVars, parseVars, buildVars, walkVars, flakeVars>>
exceptBuild == <<optVars, parseVars, valueVars, walkVars, flakeVars>>
exceptWalk == <<optVars, parseVars, valueVars, buildVars, flakeVars>>

(***************************************************************************)
(* Bounds                                                                  *)
(***************************************************************************)
\* installables on one command line
MaxArgs == 2
\* tokens on one command line, all installables together
MaxArgChars == 3
\* derivations one evaluation of an installable yields
MaxDrvs == 3
\* installables handed to one call of build
MaxInstallables == 2
\* locked inputs in one lock file, below the top level
MaxDeps == 3
\* attribute paths of one flake installable
MaxAttrPaths == 2
\* attribute-path prefixes of one flake installable
MaxPrefixes == 1
\* lock states the flake goes through
MaxFingerprint == 2

(***************************************************************************)
(* Helpers on sequences                                                    *)
(***************************************************************************)
Range(s) == {s[k] : k \in DOMAIN s}

RECURSIVE SeqsUpTo(_, _)
SeqsUpTo(S, n) ==
    IF n = 0 THEN {<<>>}
    ELSE LET shorter == SeqsUpTo(S, n - 1)
         IN  shorter \cup {Append(s, x) : s \in {t \in shorter : Len(t) = n - 1}, x \in S}

(***************************************************************************)
(* MixFlakeOptions: the three flags and getLockFileMode                    *)
(***************************************************************************)
NoFile == <<>>
Files == {<<"f1">>, <<"f2">>}

\* --recreate-lock-file
SetRecreateLockFile ==
    /\ recreateLockFile' = TRUE
    /\ UNCHANGED <<saveLockFile, useRegistries, file, lockFileMode, exceptOpt>>

\* --no-save-lock-file
SetNoSaveLockFile ==
    /\ saveLockFile' = FALSE
    /\ UNCHANGED <<recreateLockFile, useRegistries, file, lockFileMode, exceptOpt>>

\* --no-registries
SetNoRegistries ==
    /\ useRegistries' = FALSE
    /\ UNCHANGED <<recreateLockFile, saveLockFile, file, lockFileMode, exceptOpt>>

\* -f / --file FILE
SetFile(f) ==
    /\ file' = f
    /\ UNCHANGED <<recreateLockFile, saveLockFile, useRegistries, lockFileMode, exceptOpt>>

getLockFileMode_SwappedSave(useReg, recreate, save) ==
    IF useReg
    THEN IF recreate
         THEN (IF save THEN "UseNewLockFile" ELSE "RecreateLockFile")
         ELSE (IF save THEN "UpdateLockFile" ELSE "UseUpdatedLockFile")
    ELSE "AllPure"

getLockFileMode(useReg, recreate, save) ==
    IF useReg
    THEN IF recreate
         THEN (IF save THEN "RecreateLockFile" ELSE "UseNewLockFile")
         ELSE (IF save THEN "UpdateLockFile" ELSE "UseUpdatedLockFile")
    ELSE "AllPure"

\* a caller asks the command for its lock-file mode
GetLockFileMode ==
    /\ lockFileMode' = [mode |-> getLockFileMode(useRegistries, recreateLockFile, saveLockFile),
                        useRegistries |-> useRegistries,
                        recreateLockFile |-> recreateLockFile,
                        saveLockFile |-> saveLockFile]
    /\ UNCHANGED <<recreateLockFile, saveLockFile, useRegistries, file, exceptOpt>>

NoMode == [mode |-> "none", useRegistries |-> TRUE, recreateLockFile |-> FALSE, saveLockFile |-> TRUE]

NotCalled == [status |-> "pending", value |-> <<>>]
NotBuilt == [mode |-> "none", status |-> "pending", call |-> "none", readOnly |-> FALSE,
             pathsToBuild |-> {}, value |-> <<>>]

\* flake references: a local path, and one that is not
PathRef == [isPath |-> TRUE, str |-> <<"/", "a">>]
RemoteRef == [isPath |-> FALSE, str |-> <<"g", ":", "o", "/", "r", "%">>]
FlakeRefs == {PathRef, RemoteRef}

Deps == 1..MaxDeps
\* the top-level LockedInputs of a lock file
TopLevel == 0
NoInputs == [n \in {TopLevel} \cup Deps |-> {}]
NoPops == [n \in {TopLevel} \cup Deps |-> 0]
NoRoot == [written |-> FALSE, symlink |-> <<>>, manifest |-> <<>>, references |-> {}]

\* the attribute paths the flake of this world may provide
TablePaths == {<<"p.", "x">>, <<"x">>, <<"y">>}
\* an attribute is absent, a derivation, or a value that is no derivation
Kinds == {"absent", "drv", "value"}
NoOutputs == [q \in TablePaths |-> "absent"]
NoDrv == [drvPath |-> <<>>, outPath |-> <<>>, outputName |-> ""]
NoResolution ==
    [op |-> "none", flakeRef |-> PathRef, status |-> "none", drv |-> NoDrv, attrPath |-> <<>>,
     index |-> 0, evalCalls |-> 0, rootWrites |-> 0, fromCache |-> FALSE, stale |-> FALSE]

NotParsed == [status |-> "pending", installables |-> <<>>]

\* the command object as constructed: no flag given yet
InitOptions ==
    /\ recreateLockFile = FALSE
    /\ saveLockFile = TRUE
    /\ useRegistries = TRUE
    /\ file = NoFile
    /\ lockFileMode = NoMode
    /\ args = <<>>
    /\ pureEval = TRUE
    /\ parsed = NotParsed
    /\ drvs = <<>>
    /\ buildables = NotCalled
    /\ readOnlyMode = FALSE
    /\ built = NotBuilt
    /\ storePaths = NotCalled
    /\ origFlakeRef = RemoteRef
    /\ lockFile = NoInputs
    /\ validDeps = {}
    /\ wpc = "idle"
    /\ queue = <<>>
    /\ closure = {}
    /\ pops = NoPops
    /\ gcRoot = NoRoot
    /\ fingerprint = 1
    /\ flakeOutputs = NoOutputs
    /\ evalCache = {}
    /\ validPaths = {}
    /\ last = NoResolution

NextOptions ==
    \/ SetRecreateLockFile
    \/ SetNoSaveLockFile
    \/ SetNoRegistries
    \/ \E f \in Files : SetFile(f)
    \/ GetLockFileMode

SpecOptions == InitOptions /\ [][NextOptions]_vars

(***************************************************************************)
(* Installables and SourceExprCommand::parseInstallables                   *)
(***************************************************************************)
InstallableExpr(text) ==
    [type |-> "Expr", text |-> text, v |-> <<>>, flakeRef |-> <<>>,
     attrPaths |-> <<>>, prefixes |-> <<>>]

InstallableAttrPath(v, attrPath) ==
    [type |-> "AttrPath", text |-> attrPath, v |-> v, flakeRef |-> <<>>,
     attrPaths |-> <<>>, prefixes |-> <<>>]

InstallableStorePath(storePath) ==
    [type |-> "StorePath", text |-> storePath, v |-> <<>>, flakeRef |-> <<>>,
     attrPaths |-> <<>>, prefixes |-> <<>>]

InstallableFlake(flakeRef, attrPaths, prefixes) ==
    [type |-> "Flake", text |-> <<>>, v |-> <<>>, flakeRef |-> flakeRef,
     attrPaths |-> attrPaths, prefixes |-> prefixes]

\* the tokens a command-line string is made of
ArgChars == {"(", "nixpkgs.", ":", "/", "a"}

\* what constructing FlakeRef(s, true) can do: succeed, or throw one of two errors
FlakeRefOutcomes == {"ok", "MissingFlake", "BadFlakeRef"}

getDefaultFlakeAttrPaths == <<<<"defaultPackage">>>>
getDefaultFlakeAttrPathPrefixes == <<<<"packages.">>, <<"legacyPackages.">>>>

\* store->followLinksToStorePath(s), when s leads into the store
followLinksToStorePath(s) == <<"/nix/store">> \o s

hasPrefix(s, tok) == Len(s) >= 1 /\ s[1] = tok

\* s.rfind(c): the last position of c, 0 for npos
rfind(s, c) ==
    LET at == {k \in DOMAIN s : s[k] = c}
    IN  IF at = {} THEN 0 ELSE CHOOSE k \in at : \A j \in at : j <= k

Pushed(insts) == [threw |-> FALSE, error |-> "", pushed |-> insts]
Thrown(e) == [threw |-> TRUE, error |-> e, pushed |-> <<>>]

\* the same loop body without the `continue` after a successful flake reference
ParseArg_NoContinue(s, flakeRef, leftRef, follows) ==
    IF hasPrefix(s, "(") THEN Pushed(<<InstallableExpr(s)>>)
    ELSE IF hasPrefix(s, "nixpkgs.")
    THEN Pushed(<<InstallableFlake(<<"nixpkgs">>, <<<<"legacyPackages.">> \o Tail(s)>>, <<>>)>>)
    ELSE LET colon == rfind(s, ":")
             first == IF flakeRef = "ok"
                      THEN <<InstallableFlake(s, getDefaultFlakeAttrPaths, <<>>)>>
                      ELSE <<>>
         IN  IF colon # 0
             THEN IF leftRef = "ok"
                  THEN Pushed(first \o <<InstallableFlake(SubSeq(s, 1, colon - 1),
                                  <<SubSeq(s, colon + 1, Len(s))>>,
                                  getDefaultFlakeAttrPathPrefixes)>>)
                  ELSE Thrown(leftRef)
             ELSE IF "/" \in Range(s) /\ follows
             THEN Pushed(first \o <<InstallableStorePath(followLinksToStorePath(s))>>)
             ELSE IF flakeRef = "ok" THEN Pushed(first)
             ELSE IF flakeRef = "MissingFlake" THEN Thrown("MissingFlake")
             ELSE Thrown("unsupported argument")

\* one iteration of the loop over the strings, outside the legacy file mode;
\* flakeRef: what FlakeRef(s, true) does; leftRef: what FlakeRef of the part
\* before the last colon does; follows: whether s leads into the store
ParseArg(s, flakeRef, leftRef, follows) ==
    IF hasPrefix(s, "(") THEN Pushed(<<InstallableExpr(s)>>)
    ELSE IF hasPrefix(s, "nixpkgs.")
    THEN Pushed(<<InstallableFlake(<<"nixpkgs">>, <<<<"legacyPackages.">> \o Tail(s)>>, <<>>)>>)
    ELSE IF flakeRef = "ok"
    THEN Pushed(<<InstallableFlake(s, getDefaultFlakeAttrPaths, <<>>)>>)
    ELSE LET colon == rfind(s, ":")
         IN  IF colon # 0
             THEN IF leftRef = "ok"
                  THEN Pushed(<<InstallableFlake(SubSeq(s, 1, colon - 1),
                                  <<SubSeq(s, colon + 1, Len(s))>>,
                                  getDefaultFlakeAttrPathPrefixes)>>)
                  ELSE Thrown(leftRef)
             ELSE IF "/" \in Range(s) /\ follows
             THEN Pushed(<<InstallableStorePath(followLinksToStorePath(s))>>)
             ELSE IF flakeRef = "MissingFlake" THEN Thrown("MissingFlake")
             ELSE Thrown("unsupported argument")

\* everything one iteration can do, over what the flake-reference parser and
\* the store can answer
ParseArgOutcomes(s) ==
    {ParseArg(s, f, l, w) : f \in FlakeRefOutcomes, l \in FlakeRefOutcomes, w \in BOOLEAN}

Returned(insts) == [status |-> "returned", error |-> "", installables |-> insts]
Threw(e) == [status |-> "threw", error |-> e, installables |-> <<>>]

\* the loop over the strings: an exception leaves the loop and the function
RECURSIVE ParseArgs(_)
ParseArgs(ss) ==
    IF ss = <<>> THEN {Returned(<<>>)}
    ELSE UNION {
           IF o.threw THEN {Threw(o.error)}
           ELSE {IF r.status = "threw" THEN r ELSE Returned(o.pushed \o r.installables)
                 : r \in ParseArgs(Tail(ss))}
           : o \in ParseArgOutcomes(Head(ss))}

\* the legacy file mode: every string is an attribute path into the file's value
ParseFileArgs(f, ss) ==
    LET paths == IF ss = <<>> THEN <<<<>>>> ELSE ss
    IN  Returned([k \in DOMAIN paths |-> InstallableAttrPath(f, paths[k])])

parseInstallables(f, ss) ==
    IF f # NoFile THEN {ParseFileArgs(f, ss)} ELSE ParseArgs(ss)

ParseInstallables ==
    /\ parsed.status = "pending"
    /\ \E r \in parseInstallables(file, args) : parsed' = r
    /\ pureEval' = IF file # NoFile THEN FALSE ELSE pureEval
    /\ UNCHANGED <<exceptParse, args>>

\* the command lines: at most n strings of at most c tokens together
RECURSIVE ArgLists(_, _)
ArgLists(n, c) ==
    IF n = 0 THEN {<<>>}
    ELSE {<<>>} \cup UNION {{<<s>> \o rest : rest \in ArgLists(n - 1, c - Len(s))}
                            : s \in SeqsUpTo(ArgChars, c)}

InitParse ==
    /\ recreateLockFile = FALSE
    /\ saveLockFile = TRUE
    /\ useRegistries = TRUE
    /\ file \in {NoFile} \cup Files
    /\ lockFileMode = NoMode
    /\ args \in ArgLists(MaxArgs, MaxArgChars)
    /\ pureEval = TRUE
    /\ parsed = NotParsed
    /\ drvs = <<>>
    /\ buildables = NotCalled
    /\ readOnlyMode = FALSE
    /\ built = NotBuilt
    /\ storePaths = NotCalled
    /\ origFlakeRef = RemoteRef
    /\ lockFile = NoInputs
    /\ validDeps = {}
    /\ wpc = "idle"
    /\ queue = <<>>
    /\ closure = {}
    /\ pops = NoPops
    /\ gcRoot = NoRoot
    /\ fingerprint = 1
    /\ flakeOutputs = NoOutputs
    /\ evalCache = {}
    /\ validPaths = {}
    /\ last = NoResolution

NextParse == ParseInstallables

SpecParse == InitParse /\ [][NextParse]_vars

\* the string an installable was made from, by the rule that made it
MadeFrom(inst, s) ==
    \/ inst.type = "Expr" /\ inst.text = s /\ hasPrefix(s, "(")
    \/ /\ inst.type = "Flake" /\ hasPrefix(s, "nixpkgs.")
       /\ inst.flakeRef = <<"nixpkgs">>
       /\ inst.attrPaths = <<<<"legacyPackages.">> \o Tail(s)>>
    \/ /\ inst.type = "Flake" /\ ~hasPrefix(s, "(") /\ ~hasPrefix(s, "nixpkgs.")
       /\ \/ inst.flakeRef = s /\ inst.attrPaths = getDefaultFlakeAttrPaths
          \/ /\ Len(inst.attrPaths) = 1
             /\ inst.flakeRef \o <<":">> \o inst.attrPaths[1] = s
             /\ ":" \notin Range(inst.attrPaths[1])
             /\ inst.prefixes = getDefaultFlakeAttrPathPrefixes
    \/ /\ inst.type = "StorePath" /\ inst.text = followLinksToStorePath(s)
       /\ "/" \in Range(s) /\ ":" \notin Range(s)
       /\ ~hasPrefix(s, "(") /\ ~hasPrefix(s, "nixpkgs.")

\* C8: when parseInstallables returns, the result holds exactly one
\* installable per input string, element i made from string i; in the legacy
\* file mode every string is wrapped as an attribute path and the empty list
\* counts as the list of the empty string; an error leaves no result.
ParseOnePerString ==
    /\ parsed.status = "returned" =>
         LET ss == IF file # NoFile /\ args = <<>> THEN <<<<>>>> ELSE args
             res == parsed.installables
         IN  /\ Len(res) = Len(ss)
             /\ \A k \in DOMAIN ss :
                  IF file # NoFile
                  THEN res[k] = InstallableAttrPath(file, ss[k])
                  ELSE MadeFrom(res[k], ss[k])
    /\ parsed.status = "threw" => parsed.installables = <<>> /\ file = NoFile

\* two strings parsed by two different rules, in input order
ParseOnePerStringWitness ==
    /\ parsed.status = "returned" /\ file = NoFile
    /\ Len(args) = 2 /\ args[1] = <<"/">> /\ args[2] = <<"(", "a">>
    /\ parsed.installables[1].type = "StorePath"
    /\ parsed.installables[2].type = "Expr"

\* C9: getLockFileMode follows the decision table: without registries the mode
\* is AllPure whatever the other two flags are; with registries,
\* (recreate, save) = (T,T) gives RecreateLockFile, (T,F) UseNewLockFile,
\* (F,T) UpdateLockFile and (F,F) UseUpdatedLockFile.
LockFileModeTable ==
    lockFileMode.mode # "none" =>
        LET u == lockFileMode.useRegistries
            r == lockFileMode.recreateLockFile
            s == lockFileMode.saveLockFile
            m == lockFileMode.mode
        IN  /\ (~u) => m = "AllPure"
            /\ (u /\ r /\ s) => m = "RecreateLockFile"
            /\ (u /\ r /\ ~s) => m = "UseNewLockFile"
            /\ (u /\ ~r /\ s) => m = "UpdateLockFile"
            /\ (u /\ ~r /\ ~s) => m = "UseUpdatedLockFile"

\* the table's third row has been computed: registries, recreate, no save
LockFileModeWitness ==
    /\ lockFileMode.mode = "UseNewLockFile"
    /\ lockFileMode.useRegistries /\ lockFileMode.recreateLockFile
    /\ ~lockFileMode.saveLockFile


(***************************************************************************)
(* InstallableValue::toBuildables                                          *)
(***************************************************************************)
\* the output names, in the order of std::string
OutputNames == <<"a", "b", "c">>

\* what the evaluator can report for one derivation (EvalCache::Derivation)
Derivations ==
    [drvPath : {<<"d1", ".drv">>, <<"d2", ".drv">>},
     outPath : {<<"x">>, <<"y">>},
     outputName : {""} \cup Range(OutputNames)]

\* a std::map with one entry
MapOf(k, v) == [x \in {k} |-> v]

\* std::map::insert of all entries of m2: a key already in m keeps its value
MapInsertAll(m, m2) ==
    [x \in DOMAIN m \cup DOMAIN m2 |-> IF x \in DOMAIN m THEN m[x] ELSE m2[x]]

Buildable(drvPath, outputs) == [drvPath |-> drvPath, outputs |-> outputs]

EmptyMap == [x \in {} |-> <<>>]

\* the loop that merges the output maps of res into one map
RECURSIVE MergeOutputs(_, _)
MergeOutputs(outputs, res) ==
    IF res = <<>> THEN outputs
    ELSE MergeOutputs(MapInsertAll(outputs, Head(res).outputs), Tail(res))

\* the same function without the merge of buildables that share a derivation
toBuildables_NoMerge(ds) ==
    IF \E k \in DOMAIN ds : ds[k].outputName = ""
    THEN [status |-> "threw", value |-> <<>>]
    ELSE [status |-> "returned",
          value |-> [k \in DOMAIN ds |->
                       Buildable(ds[k].drvPath, MapOf(ds[k].outputName, ds[k].outPath))]]

\* ds: what toDerivations returned
toBuildables(ds) ==
    IF \E k \in DOMAIN ds : ds[k].outputName = ""
    THEN [status |-> "threw", value |-> <<>>]
    ELSE LET res == [k \in DOMAIN ds |->
                       Buildable(ds[k].drvPath, MapOf(ds[k].outputName, ds[k].outPath))]
             drvPaths == {ds[k].drvPath : k \in DOMAIN ds}
         IN  IF Cardinality(drvPaths) = 1
             THEN [status |-> "returned",
                   value |-> <<Buildable(CHOOSE d \in drvPaths : TRUE,
                                         MergeOutputs(EmptyMap, res))>>]
             ELSE [status |-> "returned", value |-> res]

ToBuildables ==
    /\ buildables.status = "pending"
    /\ buildables' = toBuildables(drvs)
    /\ UNCHANGED <<exceptValue, drvs>>

InitValue ==
    /\ recreateLockFile = FALSE
    /\ saveLockFile = TRUE
    /\ useRegistries = TRUE
    /\ file = NoFile
    /\ lockFileMode = NoMode
    /\ args = <<>>
    /\ pureEval = TRUE
    /\ parsed = NotParsed
    /\ drvs \in SeqsUpTo(Derivations, MaxDrvs)
    /\ buildables = NotCalled
    /\ readOnlyMode = FALSE
    /\ built = NotBuilt
    /\ storePaths = NotCalled
    /\ origFlakeRef = RemoteRef
    /\ lockFile = NoInputs
    /\ validDeps = {}
    /\ wpc = "idle"
    /\ queue = <<>>
    /\ closure = {}
    /\ pops = NoPops
    /\ gcRoot = NoRoot
    /\ fingerprint = 1
    /\ flakeOutputs = NoOutputs
    /\ evalCache = {}
    /\ validPaths = {}
    /\ last = NoResolution

NextValue == ToBuildables

SpecValue == InitValue /\ [][NextValue]_vars

\* C7: when all derivations of one resolution share one derivation path D the
\* result is the single buildable of D whose outputs are the union of the
\* individual output maps (of two entries with one name the first is kept);
\* when two derivation paths differ there is one buildable per derivation,
\* unchanged and in the order of the derivations.
BuildablesConsolidated ==
    buildables.status = "returned" =>
        IF drvs = <<>> THEN buildables.value = <<>> ELSE
        LET res == buildables.value
            names == {drvs[k].outputName : k \in DOMAIN drvs}
            First(n) == CHOOSE k \in DOMAIN drvs :
                          /\ drvs[k].outputName = n
                          /\ \A j \in DOMAIN drvs : drvs[j].outputName = n => k <= j
        IN  IF \A j, k \in DOMAIN drvs : drvs[j].drvPath = drvs[k].drvPath
            THEN /\ Len(res) = 1
                 /\ res[1].drvPath = drvs[1].drvPath
                 /\ DOMAIN res[1].outputs = names
                 /\ \A n \in names : res[1].outputs[n] = drvs[First(n)].outPath
            ELSE /\ Len(res) = Len(drvs)
                 /\ \A k \in DOMAIN drvs :
                      /\ res[k].drvPath = drvs[k].drvPath
                      /\ DOMAIN res[k].outputs = {drvs[k].outputName}
                      /\ res[k].outputs[drvs[k].outputName] = drvs[k].outPath

\* three derivations D, D, D with the outputs a, b, c have been merged
BuildablesMergedWitness ==
    /\ buildables.status = "returned"
    /\ Len(drvs) = 3
    /\ \A k \in 1..3 : drvs[k].drvPath = <<"d1", ".drv">> /\ drvs[k].outputName = OutputNames[k]
    /\ Len(buildables.value) = 1
    /\ DOMAIN buildables.value[1].outputs = {"a", "b", "c"}

(***************************************************************************)
(* build and toStorePaths                                                  *)
(***************************************************************************)
RealiseModes == {"Build", "NoBuild", "DryRun"}

\* the names a buildable can carry, in the order of std::string
NameOrder == OutputNames \o <<"out">>

\* the store paths given on the command line
StorePathArgs == {<<"p">>, <<"d1", ".drv">>}

isDerivation(path) == path # <<>> /\ path[Len(path)] = ".drv"

\* what the expressions of this world evaluate to
EvalDerivations(text) ==
    LET d(n, o) == [drvPath |-> <<"d2", ".drv">>, outPath |-> <<o>>, outputName |-> n]
    IN  CASE text = <<"(", "one", ")">> -> <<d("a", "x")>>
          [] text = <<"(", "all", ")">> -> <<d("b", "y"), d("a", "x")>>
          [] OTHER -> <<d("", "x")>>

ExprArgs == {<<"(", "one", ")">>, <<"(", "all", ")">>, <<"(", "bad", ")">>}

BuildInstallables ==
    {InstallableStorePath(q) : q \in StorePathArgs} \cup {InstallableExpr(e) : e \in ExprArgs}

\* Installable::toBuildables, by variant
toBuildablesOf(inst) ==
    IF inst.type = "StorePath"
    THEN [status |-> "returned",
          value |-> <<Buildable(IF isDerivation(inst.text) THEN inst.text ELSE <<>>,
                                MapOf("out", inst.text))>>]
    ELSE toBuildables(EvalDerivations(inst.text))

\* the elements of a StringSet, in order
SortedNames(names) ==
    LET idx == {k \in DOMAIN NameOrder : NameOrder[k] \in names}
        nth(n) == CHOOSE k \in idx : Cardinality({j \in idx : j < k}) = n - 1
    IN  [n \in 1..Cardinality(idx) |-> NameOrder[nth(n)]]

RECURSIVE concatStringsSep(_, _)
concatStringsSep(sep, ss) ==
    IF ss = <<>> THEN <<>>
    ELSE IF Len(ss) = 1 THEN <<ss[1]>>
    ELSE <<ss[1], sep>> \o concatStringsSep(sep, Tail(ss))

\* what one buildable adds to pathsToBuild
PathsOf(b) ==
    IF b.drvPath # <<>>
    THEN {b.drvPath \o <<"!">> \o concatStringsSep(",", SortedNames(DOMAIN b.outputs))}
    ELSE {b.outputs[n] : n \in DOMAIN b.outputs}

RECURSIVE PathsOfAll(_)
PathsOfAll(bs) == IF bs = <<>> THEN {} ELSE PathsOf(Head(bs)) \cup PathsOfAll(Tail(bs))

\* the loop over the installables: all their buildables, or the first exception
RECURSIVE CollectBuildables(_)
CollectBuildables(insts) ==
    IF insts = <<>> THEN [status |-> "returned", value |-> <<>>]
    ELSE LET first == toBuildablesOf(Head(insts))
             rest == CollectBuildables(Tail(insts))
         IN  IF first.status = "threw" \/ rest.status = "threw"
             THEN [status |-> "threw", value |-> <<>>]
             ELSE [status |-> "returned", value |-> first.value \o rest.value]

\* settings.readOnlyMode after the first statement of build
ReadOnlyAfter(mode, ro) == IF mode # "Build" THEN TRUE ELSE ro

\* build(store, mode, installables), entered with settings.readOnlyMode = ro
build(mode, insts, ro) ==
    LET got == CollectBuildables(insts)
        paths == PathsOfAll(got.value)
    IN  [mode |-> mode,
         status |-> got.status,
         call |-> IF got.status = "threw" THEN "none"
                  ELSE IF mode = "DryRun" THEN "printMissing"
                  ELSE IF mode = "Build" THEN "buildPaths"
                  ELSE "none",
         readOnly |-> ReadOnlyAfter(mode, ro),
         pathsToBuild |-> IF got.status = "threw" THEN {} ELSE paths,
         value |-> got.value]

Build(mode, insts) ==
    /\ built' = build(mode, insts, readOnlyMode)
    /\ readOnlyMode' = ReadOnlyAfter(mode, readOnlyMode)
    /\ storePaths' = NotCalled
    /\ UNCHANGED exceptBuild

\* toStorePaths(store, mode, installables)
ToStorePaths(mode, insts) ==
    LET b == build(mode, insts, readOnlyMode)
    IN  /\ built' = b
        /\ readOnlyMode' = ReadOnlyAfter(mode, readOnlyMode)
        /\ storePaths' =
             [status |-> b.status,
              value |-> UNION {{x.outputs[n] : n \in DOMAIN x.outputs} : x \in Range(b.value)}]
        /\ UNCHANGED exceptBuild

InitBuild ==
    /\ recreateLockFile = FALSE
    /\ saveLockFile = TRUE
    /\ useRegistries = TRUE
    /\ file = NoFile
    /\ lockFileMode = NoMode
    /\ args = <<>>
    /\ pureEval = TRUE
    /\ parsed = NotParsed
    /\ drvs = <<>>
    /\ buildables = NotCalled
    /\ readOnlyMode = FALSE
    /\ built = NotBuilt
    /\ storePaths = NotCalled
    /\ origFlakeRef = RemoteRef
    /\ lockFile = NoInputs
    /\ validDeps = {}
    /\ wpc = "idle"
    /\ queue = <<>>
    /\ closure = {}
    /\ pops = NoPops
    /\ gcRoot = NoRoot
    /\ fingerprint = 1
    /\ flakeOutputs = NoOutputs
    /\ evalCache = {}
    /\ validPaths = {}
    /\ last = NoResolution

NextBuild ==
    \/ \E mode \in RealiseModes, insts \in SeqsUpTo(BuildInstallables, MaxInstallables) :
         Build(mode, insts)
    \/ \E mode \in RealiseModes, insts \in SeqsUpTo(BuildInstallables, MaxInstallables) :
         ToStorePaths(mode, insts)

SpecBuild == InitBuild /\ [][NextBuild]_vars

\* C6: whenever build is called with mode Build, settings.readOnlyMode is
\* false at the moment store->buildPaths is requested, whatever build and
\* toStorePaths calls came before.
BuildPathsReadWrite ==
    built.call = "buildPaths" => ~built.readOnly

(***************************************************************************)
(* makeFlakeClosureGCRoot                                                  *)
(*                                                                         *)
(* A lock file is a graph: lockFile[n] is the set of the locked inputs of  *)
(* node n.  An input has a greater number than the node that names it, so  *)
(* the graph is acyclic; a node may be an input of several nodes.          *)
(***************************************************************************)
Nodes == {TopLevel} \cup Deps

LockFiles == {g \in [Nodes -> SUBSET Deps] : \A n \in Nodes : \A c \in g[n] : c > n}

\* resFlake.flake.sourceInfo.storePath
SourcePath == <<"src">>

\* LockedInput::computeStorePath
computeStorePath(n) == <<"dep", n>>

\* the elements of a set of nodes, in the order of the map that holds them
RECURSIVE InOrder(_)
InOrder(S) ==
    IF S = {} THEN <<>>
    ELSE LET least == CHOOSE x \in S : \A y \in S : x <= y
         IN  <<least>> \o InOrder(S \ {least})

\* the queue after one iteration, had the iteration not popped its node
QueueAfter_NoPop(q, inputs) == q \o InOrder(inputs)

\* the queue after one iteration: the front popped, every input pushed
QueueAfter(q, inputs) == Tail(q) \o InOrder(inputs)

\* the inputs one iteration pushes, were only the valid ones followed
Pushed_ValidOnly(inputs, valid) == inputs \cap valid

\* the inputs one iteration pushes: all of them, valid or not
PushedInputs(inputs, valid) == inputs

\* one iteration of the loop over the queue
PopNode(g, valid, w) ==
    LET node == Head(w.queue)
        inputs == g[node]
    IN  [queue |-> QueueAfter(w.queue, PushedInputs(inputs, valid)),
         closure |-> w.closure \cup {computeStorePath(c) : c \in inputs \cap valid},
         pops |-> [w.pops EXCEPT ![node] = @ + 1]]

\* the state of the walk before the loop
WalkStart == [queue |-> <<TopLevel>>, closure |-> {SourcePath}, pops |-> NoPops]

RECURSIVE RunWalk(_, _, _)
RunWalk(g, valid, w) == IF w.queue = <<>> THEN w ELSE RunWalk(g, valid, PopNode(g, valid, w))

\* the paths of a PathSet in order: "dep..." sorts before "src"
SortedPaths(paths) ==
    LET deps == {n \in Deps : computeStorePath(n) \in paths}
        sorted == InOrder(deps)
    IN  [k \in DOMAIN sorted |-> computeStorePath(sorted[k])]
        \o (IF SourcePath \in paths THEN <<SourcePath>> ELSE <<>>)

\* replaceStrings of %, / and : in the reference's string
EncodeRef(s) ==
    [k \in DOMAIN s |-> CASE s[k] = "%" -> "%25"
                          [] s[k] = "/" -> "%2f"
                          [] s[k] = ":" -> "%3a"
                          [] OTHER -> s[k]]

\* the tail of the function: the closure file, the symlink and the root
WrittenRoot(ref, paths) ==
    [written |-> TRUE,
     symlink |-> <<"flake-closures", "/">> \o EncodeRef(ref.str),
     manifest |-> concatStringsSep(" ", SortedPaths(paths)),
     references |-> paths]

\* whether the function writes anything, were local paths not left out
WritesClosureRoot_NoPathCheck(ref, g, valid) ==
    RunWalk(g, valid, WalkStart).closure # {}

\* whether the function gets to write the closure file and the symlink
WritesClosureRoot(ref, g, valid) ==
    ~ref.isPath /\ RunWalk(g, valid, WalkStart).closure # {}

\* the whole function; root is the symlink as it was
makeFlakeClosureGCRoot(ref, g, valid, root) ==
    IF WritesClosureRoot(ref, g, valid)
    THEN WrittenRoot(ref, RunWalk(g, valid, WalkStart).closure)
    ELSE root

\* lines 212-221
WalkBegin ==
    /\ wpc = "start"
    /\ IF origFlakeRef.isPath
       THEN /\ wpc' = "done"
            /\ UNCHANGED <<queue, closure, pops>>
       ELSE /\ wpc' = "loop"
            /\ queue' = WalkStart.queue
            /\ closure' = WalkStart.closure
            /\ pops' = WalkStart.pops
    /\ UNCHANGED <<exceptWalk, origFlakeRef, lockFile, validDeps, gcRoot>>

\* lines 223-234, one iteration
WalkPop ==
    /\ wpc = "loop"
    /\ queue # <<>>
    /\ LET w == PopNode(lockFile, validDeps, [queue |-> queue, closure |-> closure, pops |-> pops])
       IN  /\ queue' = w.queue
           /\ closure' = w.closure
           /\ pops' = w.pops
    /\ UNCHANGED <<exceptWalk, origFlakeRef, lockFile, validDeps, wpc, gcRoot>>

\* lines 236-252
WalkWrite ==
    /\ wpc = "loop"
    /\ queue = <<>>
    /\ gcRoot' = IF closure = {} THEN gcRoot ELSE WrittenRoot(origFlakeRef, closure)
    /\ wpc' = "done"
    /\ UNCHANGED <<exceptWalk, origFlakeRef, lockFile, validDeps, queue, closure, pops>>

InitWalk ==
    /\ recreateLockFile = FALSE
    /\ saveLockFile = TRUE
    /\ useRegistries = TRUE
    /\ file = NoFile
    /\ lockFileMode = NoMode
    /\ args = <<>>
    /\ pureEval = TRUE
    /\ parsed = NotParsed
    /\ drvs = <<>>
    /\ buildables = NotCalled
    /\ readOnlyMode = FALSE
    /\ built = NotBuilt
    /\ storePaths = NotCalled
    /\ origFlakeRef \in FlakeRefs
    /\ lockFile \in LockFiles
    /\ validDeps \in SUBSET Deps
    /\ wpc = "start"
    /\ queue = <<>>
    /\ closure = {}
    /\ pops = NoPops
    /\ gcRoot = NoRoot
    /\ fingerprint = 1
    /\ flakeOutputs = NoOutputs
    /\ evalCache = {}
    /\ validPaths = {}
    /\ last = NoResolution

NextWalk ==
    \/ WalkBegin
    \/ WalkPop
    \/ WalkWrite

SpecWalk == InitWalk /\ [][NextWalk]_vars

\* the loop runs whenever it can
SpecWalkFair == SpecWalk /\ WF_vars(NextWalk)

\* the number of pops a walk started at node n makes: n, and a walk per input
RECURSIVE WalkSize(_, _)
WalkSize(g, n) ==
    LET RECURSIVE Sum(_)
        Sum(S) == IF S = {} THEN 0
                  ELSE LET c == CHOOSE x \in S : TRUE
                       IN  WalkSize(g, c) + Sum(S \ {c})
    IN  1 + Sum(g[n])

\* the number of paths from the top level to node n
RECURSIVE PathsTo(_, _)
PathsTo(g, n) ==
    LET RECURSIVE Sum(_)
        Sum(S) == IF S = {} THEN 0
                  ELSE LET m == CHOOSE x \in S : TRUE
                       IN  PathsTo(g, m) + Sum(S \ {m})
    IN  IF n = TopLevel THEN 1 ELSE Sum({m \in Nodes : n \in g[m]})

RECURSIVE SumOver(_, _)
SumOver(f, S) ==
    IF S = {} THEN 0
    ELSE LET x == CHOOSE y \in S : TRUE IN f[x] + SumOver(f, S \ {x})

RECURSIVE QueueSize(_, _)
QueueSize(g, q) == IF q = <<>> THEN 0 ELSE WalkSize(g, Head(q)) + QueueSize(g, Tail(q))

\* C4 (as the claim states it): the loop pops each node of the graph at most once.
WalkPopsEachNodeOnce ==
    \A n \in Nodes : pops[n] <= 1

\* C4 (amended): on every acyclic lock file the loop terminates: the pops made
\* and the pops the queue still stands for always add up to the size of the
\* walk from the top level, so every iteration uses up one of finitely many
\* pops; and when the loop has ended each node has been popped once per path
\* from the top level to it, that is once only where the graph is a tree.
WalkTerminatesOncePerPath ==
    /\ wpc = "loop" =>
         SumOver(pops, Nodes) + QueueSize(lockFile, queue) = WalkSize(lockFile, TopLevel)
    /\ (wpc = "done" /\ ~origFlakeRef.isPath) =>
         /\ queue = <<>>
         /\ \A n \in Nodes : pops[n] = PathsTo(lockFile, n)

\* the loop has ended on a graph in which node 3 has two parents
WalkSharedNodeWitness ==
    /\ wpc = "done" /\ ~origFlakeRef.isPath
    /\ lockFile[TopLevel] = {1, 2} /\ 3 \in lockFile[1] /\ 3 \in lockFile[2]
    /\ pops[3] = 2

\* C4 (amended), with the termination spelled out: under fairness of the
\* loop every walk ends, and it ends as WalkTerminatesOncePerPath says.
WalkEndsOncePerPath == <>(wpc = "done") /\ []WalkTerminatesOncePerPath

\* the inputs reachable from the top level
ReachableDeps(g) ==
    LET RECURSIVE Grow(_)
        Grow(S) == LET T == S \cup UNION {g[n] : n \in S}
                   IN  IF T = S THEN S ELSE Grow(T)
    IN  Grow({TopLevel}) \ {TopLevel}

\* C10: for a reference that is not a local path the closure written is the
\* flake's own source path and the store path of every input reachable in the
\* lock file whose path is valid: an invalid input is left out but the inputs
\* below it are still looked at; without inputs the closure is the source path.
ClosureIsValidReachable ==
    (wpc = "done" /\ ~origFlakeRef.isPath) =>
        /\ gcRoot.written
        /\ gcRoot.references =
             {SourcePath} \cup {computeStorePath(n) : n \in ReachableDeps(lockFile) \cap validDeps}
        /\ lockFile[TopLevel] = {} => gcRoot.references = {SourcePath}

\* a valid input below an input that is not valid is part of the closure
ClosureBelowInvalidWitness ==
    /\ wpc = "done" /\ gcRoot.written
    /\ lockFile[TopLevel] = {1} /\ lockFile[1] = {2}
    /\ validDeps = {2}
    /\ gcRoot.references = {SourcePath, computeStorePath(2)}

(***************************************************************************)
(* InstallableFlake                                                        *)
(*                                                                         *)
(* The flake of this world has one lock state at a time, named by its      *)
(* fingerprint, and it provides the same attributes at each of them.  The  *)
(* lock state can move on (UpdateLock) and the store can lose a path       *)
(* (CollectGarbage); both happen outside this code.                        *)
(***************************************************************************)
AttrNames == {<<"x">>, <<"y">>}
Prefixes == {<<"p.">>}

\* here a flake reference is one of FlakeRefs, not the string it was parsed from
FlakeInstallables ==
    {InstallableFlake(ref, attrPaths, prefixes) :
        ref \in FlakeRefs,
        attrPaths \in SeqsUpTo(AttrNames, MaxAttrPaths) \ {<<>>},
        prefixes \in SeqsUpTo(Prefixes, MaxPrefixes)}

\* the same candidates with the literal attribute paths before the prefixed one
getActualAttrPaths_LiteralFirst(inst) ==
    inst.attrPaths \o [k \in DOMAIN inst.prefixes |-> inst.prefixes[k] \o inst.attrPaths[1]]

getActualAttrPaths(inst) ==
    [k \in DOMAIN inst.prefixes |-> inst.prefixes[k] \o inst.attrPaths[1]] \o inst.attrPaths

\* what findAlongAttrPath and getDerivation find at an attribute path
KindOf(table, attrPath) ==
    IF attrPath \in DOMAIN table THEN table[attrPath] ELSE "absent"

\* the record extracted from the derivation at an attribute path
DrvAt(attrPath) ==
    [drvPath |-> attrPath \o <<".drv">>, outPath |-> attrPath \o <<"-out">>, outputName |-> "out"]

\* EvalCache::getDerivation: the entries under a key, none or one
getDerivation(cache, fp, attrPath) ==
    {e \in cache : e.fingerprint = fp /\ e.attrPath = attrPath}

\* EvalCache::addDerivation
addDerivation(cache, fp, attrPath, drv) ==
    (cache \ getDerivation(cache, fp, attrPath))
        \cup {[fingerprint |-> fp, attrPath |-> attrPath, drv |-> drv]}

\* a cache entry is returned whatever the store says
HitUsable_Unchecked(drv, valid) == TRUE

\* a cache entry is returned only if its derivation is a valid path
HitUsable(drv, valid) == drv.drvPath \in valid

\* the cache is left as it was after an attribute has been evaluated
CacheAfterEval_NotAdded(cache, fp, attrPath, drv) == cache

\* the cache after an attribute has been evaluated
CacheAfterEval(cache, fp, attrPath, drv) == addDerivation(cache, fp, attrPath, drv)

\* the lock file of the flake of this world: one input, fetched
FlakeLockFile == [n \in Nodes |-> IF n = TopLevel THEN {1} ELSE {}]
FlakeValidDeps == {1}

\* what makeFlakeClosureGCRoot does for each flake reference on that lock file
FlakeRootWritten ==
    [ref \in FlakeRefs |-> WritesClosureRoot(ref, FlakeLockFile, FlakeValidDeps)]
FlakeRoot ==
    [ref \in FlakeRefs |-> makeFlakeClosureGCRoot(ref, FlakeLockFile, FlakeValidDeps, NoRoot)]

\* getFlakeOutputs: the flake is called and the closure root is made
getFlakeOutputs(ref, st) ==
    [st EXCEPT !.evaluated = TRUE,
               !.evalCalls = @ + 1,
               !.rootWrites = @ + (IF FlakeRootWritten[ref] THEN 1 ELSE 0),
               !.root = IF FlakeRootWritten[ref] THEN FlakeRoot[ref] ELSE @]

Outcome(status, drv, attrPath, st, fromCache, stale) ==
    [status |-> status, drv |-> drv, attrPath |-> attrPath, index |-> st.index,
     evalCalls |-> st.evalCalls, rootWrites |-> st.rootWrites,
     fromCache |-> fromCache, stale |-> stale,
     cache |-> st.cache, valid |-> st.valid, root |-> st.root]

\* the loop of toDerivations over the candidate attribute paths; wrote: whether
\* extracting the derivation leaves its .drv file in the store
RECURSIVE TryAttrPaths(_, _, _, _, _, _)
TryAttrPaths(paths, ref, fp, table, st, wrote) ==
    IF paths = <<>>
    THEN Outcome("notProvided", NoDrv, <<>>, st, FALSE, FALSE)
    ELSE LET attrPath == Head(paths)
             found == getDerivation(st.cache, fp, attrPath)
             hit == CHOOSE e \in found : TRUE
         IN  IF found # {} /\ HitUsable(hit.drv, st.valid)
             THEN Outcome("ok", hit.drv, attrPath, [st EXCEPT !.index = @ + 1], TRUE, FALSE)
             ELSE LET st1 == IF st.evaluated THEN st ELSE getFlakeOutputs(ref, st)
                      st2 == [st1 EXCEPT !.index = @ + 1]
                      kind == KindOf(table, attrPath)
                      drv == DrvAt(attrPath)
                  IN  IF kind = "absent"
                      THEN TryAttrPaths(Tail(paths), ref, fp, table, st2, wrote)
                      ELSE IF kind = "value"
                      THEN Outcome("notDerivation", NoDrv, attrPath, st2, FALSE, found # {})
                      ELSE Outcome("ok", drv, attrPath,
                                   [st2 EXCEPT
                                      !.cache = CacheAfterEval(@, fp, attrPath, drv),
                                      !.valid = IF wrote THEN @ \cup {drv.drvPath} ELSE @],
                                   FALSE, found # {})

Entering(cache, valid, root) ==
    [evaluated |-> FALSE, index |-> 0, evalCalls |-> 0, rootWrites |-> 0,
     cache |-> cache, valid |-> valid, root |-> root]

\* InstallableFlake::toDerivations, on the flake at lock state fp with outputs table
toDerivations(inst, fp, table, cache, valid, root, wrote) ==
    TryAttrPaths(getActualAttrPaths(inst), inst.flakeRef, fp, table,
                 Entering(cache, valid, root), wrote)

\* the loop of toValue over the candidate attribute paths
RECURSIVE FirstPresent(_, _, _)
FirstPresent(paths, table, st) ==
    IF paths = <<>> THEN Outcome("notProvided", NoDrv, <<>>, st, FALSE, FALSE)
    ELSE IF KindOf(table, Head(paths)) = "absent"
    THEN FirstPresent(Tail(paths), table, [st EXCEPT !.index = @ + 1])
    ELSE Outcome("ok",
                 IF KindOf(table, Head(paths)) = "drv" THEN DrvAt(Head(paths)) ELSE NoDrv,
                 Head(paths), [st EXCEPT !.index = @ + 1], FALSE, FALSE)

\* InstallableFlake::toValue
toValue(inst, table, cache, valid, root) ==
    FirstPresent(getActualAttrPaths(inst), table,
                 getFlakeOutputs(inst.flakeRef, Entering(cache, valid, root)))

CurrentLockFileMode ==
    [mode |-> getLockFileMode(useRegistries, recreateLockFile, saveLockFile),
     useRegistries |-> useRegistries,
     recreateLockFile |-> recreateLockFile,
     saveLockFile |-> saveLockFile]

Resolution(op, inst, r) ==
    [op |-> op, flakeRef |-> inst.flakeRef, status |-> r.status, drv |-> r.drv,
     attrPath |-> r.attrPath, index |-> r.index, evalCalls |-> r.evalCalls, rootWrites |-> r.rootWrites,
     fromCache |-> r.fromCache, stale |-> r.stale]

ToDerivations(inst) ==
    \E wrote \in BOOLEAN :
        \E r \in {toDerivations(inst, fingerprint, flakeOutputs, evalCache, validPaths,
                               gcRoot, wrote)} :
            /\ lockFileMode' = CurrentLockFileMode
            /\ evalCache' = r.cache
            /\ validPaths' = r.valid
            /\ gcRoot' = r.root
            /\ last' = Resolution("toDerivations", inst, r)
            /\ UNCHANGED <<recreateLockFile, saveLockFile, useRegistries, file, parseVars,
                           valueVars, buildVars, origFlakeRef, lockFile, validDeps, wpc,
                           queue, closure, pops, fingerprint, flakeOutputs>>

ToValue(inst) ==
    \E r \in {toValue(inst, flakeOutputs, evalCache, validPaths, gcRoot)} :
        /\ lockFileMode' = CurrentLockFileMode
        /\ gcRoot' = r.root
        /\ last' = Resolution("toValue", inst, r)
        /\ UNCHANGED <<recreateLockFile, saveLockFile, useRegistries, file, parseVars,
                       valueVars, buildVars, origFlakeRef, lockFile, validDeps, wpc,
                       queue, closure, pops, fingerprint, flakeOutputs, evalCache,
                       validPaths>>

\* the store loses a path: isValidPath answers for the store as it is now
CollectGarbage(path) ==
    /\ path \in validPaths
    /\ validPaths' = validPaths \ {path}
    /\ UNCHANGED <<optVars, parseVars, valueVars, buildVars, walkVars, fingerprint,
                   flakeOutputs, evalCache, last>>

\* resolveFlake finds a new lock state: another fingerprint
UpdateLock ==
    /\ fingerprint < MaxFingerprint
    /\ fingerprint' = fingerprint + 1
    /\ UNCHANGED <<optVars, parseVars, valueVars, buildVars, walkVars, flakeOutputs,
                   evalCache, validPaths, last>>

InitFlake ==
    /\ recreateLockFile = FALSE
    /\ saveLockFile = TRUE
    /\ useRegistries = TRUE
    /\ file = NoFile
    /\ lockFileMode = NoMode
    /\ args = <<>>
    /\ pureEval = TRUE
    /\ parsed = NotParsed
    /\ drvs = <<>>
    /\ buildables = NotCalled
    /\ readOnlyMode = FALSE
    /\ built = NotBuilt
    /\ storePaths = NotCalled
    /\ origFlakeRef = RemoteRef
    /\ lockFile = FlakeLockFile
    /\ validDeps = FlakeValidDeps
    /\ wpc = "idle"
    /\ queue = <<>>
    /\ closure = {}
    /\ pops = NoPops
    /\ gcRoot = NoRoot
    /\ fingerprint = 1
    /\ flakeOutputs \in [TablePaths -> Kinds]
    /\ evalCache = {}
    /\ validPaths = {}
    /\ last = NoResolution

NextFlake ==
    \/ \E inst \in FlakeInstallables : ToDerivations(inst)
    \/ \E inst \in FlakeInstallables : ToValue(inst)
    \/ \E path \in validPaths : CollectGarbage(path)
    \/ UpdateLock

SpecFlake == InitFlake /\ [][NextFlake]_vars

(***************************************************************************)
(* Properties of InstallableFlake.  Each one is stated of every            *)
(* installable resolved in the state the world has reached.                *)
(***************************************************************************)
\* the candidates in the order the specification gives: prefix . first attribute
\* path for each prefix in order, then every attribute path in order
CandidatesOf(inst) ==
    [k \in 1..(Len(inst.prefixes) + Len(inst.attrPaths)) |->
        IF k <= Len(inst.prefixes)
        THEN inst.prefixes[k] \o inst.attrPaths[1]
        ELSE inst.attrPaths[k - Len(inst.prefixes)]]

\* the cache holds a record for the attribute under the current fingerprint
\* and the store holds the record's derivation
ValidHit(cache, valid, attrPath) ==
    \E e \in cache : /\ e.fingerprint = fingerprint
                     /\ e.attrPath = attrPath
                     /\ e.drv.drvPath \in valid

Present(attrPath) ==
    attrPath \in DOMAIN flakeOutputs /\ flakeOutputs[attrPath] # "absent"

Resolve(inst) == toDerivations(inst, fingerprint, flakeOutputs, evalCache, validPaths, gcRoot, TRUE)

ResolveReadOnly(inst) ==
    toDerivations(inst, fingerprint, flakeOutputs, evalCache, validPaths, gcRoot, FALSE)

ResolveAgain(inst, r1, wrote) ==
    toDerivations(inst, fingerprint, flakeOutputs, r1.cache, r1.valid, r1.root, wrote)

\* C1 as stated: whenever a resolution succeeds, resolving the same
\* installable again, lock state and store unchanged, returns the same
\* derivation from the cache and does not call getFlakeOutputs.
SecondResolutionNeverEvaluates ==
    \A inst \in FlakeInstallables :
        \A r1 \in {Resolve(inst), ResolveReadOnly(inst)} :
            r1.status = "ok" =>
                \A r2 \in {ResolveAgain(inst, r1, TRUE), ResolveAgain(inst, r1, FALSE)} :
                    /\ r2.status = "ok"
                    /\ r2.drv = r1.drv
                    /\ r2.fromCache
                    /\ r2.evalCalls = 0

\* C1: whenever a resolution succeeds, resolving the same installable again,
\* lock state and store unchanged, returns the same derivation and so the same
\* Buildables; it does so without calling getFlakeOutputs exactly when the
\* attribute that resolved is the first candidate and its derivation is a
\* valid path of the store, and calls it once more otherwise.
SecondResolutionSameBuildables ==
    \A inst \in FlakeInstallables :
        \A r1 \in {Resolve(inst), ResolveReadOnly(inst)} :
            r1.status = "ok" =>
                \A r2 \in {ResolveAgain(inst, r1, TRUE), ResolveAgain(inst, r1, FALSE)} :
                    /\ r2.status = "ok"
                    /\ r2.drv = r1.drv
                    /\ toBuildables(<<r2.drv>>) = toBuildables(<<r1.drv>>)
                    /\ r2.evalCalls =
                         (IF r1.attrPath = CandidatesOf(inst)[1] /\ r1.drv.drvPath \in r1.valid
                          THEN 0 ELSE 1)
                    /\ r2.fromCache = (r1.drv.drvPath \in r1.valid)

\* a resolution has just been answered by the cache alone
ServedFromCacheWitness ==
    /\ last.op = "toDerivations"
    /\ last.status = "ok"
    /\ last.fromCache
    /\ last.evalCalls = 0
    /\ last.drv.drvPath \in validPaths

\* C2: toDerivations returns a record from the cache only if its drvPath is a
\* valid path of the store at that moment; if the attribute it resolves to has
\* a record whose drvPath is not valid, or none, the attribute is evaluated and
\* the cache then holds the freshly extracted record under (fingerprint, attrPath).
CacheHitOnlyIfValid ==
    \A inst \in FlakeInstallables :
        \A r \in {Resolve(inst), ResolveReadOnly(inst)} :
            /\ r.fromCache =>
                 /\ r.status = "ok"
                 /\ r.drv.drvPath \in validPaths
                 /\ [fingerprint |-> fingerprint, attrPath |-> r.attrPath, drv |-> r.drv]
                       \in evalCache
            /\ (r.status = "ok" /\ ~ValidHit(evalCache, validPaths, r.attrPath)) =>
                 /\ ~r.fromCache
                 /\ r.evalCalls = 1
                 /\ r.drv = DrvAt(r.attrPath)
                 /\ {e \in r.cache : e.fingerprint = fingerprint /\ e.attrPath = r.attrPath}
                       = {[fingerprint |-> fingerprint, attrPath |-> r.attrPath,
                           drv |-> DrvAt(r.attrPath)]}

\* a resolution has just met a record whose derivation the store had lost
StaleHitWitness ==
    /\ last.op = "toDerivations"
    /\ last.status = "ok"
    /\ last.stale
    /\ ~last.fromCache
    /\ last.evalCalls = 1

\* C3 as stated: every successful resolution of an installable whose flake
\* reference is not a local path writes the closure root.
EveryResolutionWritesRoot ==
    \A inst \in FlakeInstallables :
        ~inst.flakeRef.isPath =>
            /\ \A r \in {Resolve(inst), ResolveReadOnly(inst)} :
                 r.status = "ok" => r.rootWrites >= 1
            /\ \A r \in {toValue(inst, flakeOutputs, evalCache, validPaths, gcRoot)} :
                 r.status = "ok" => r.rootWrites >= 1

\* C3: a resolution writes the closure root exactly when it calls
\* getFlakeOutputs on a flake reference that is not a local path, and then it
\* writes it once: toValue always calls it; toDerivations calls it unless its
\* first candidate is a valid cache hit; a local path never gets a root.
RootWrittenWhenEvaluated ==
    \A inst \in FlakeInstallables :
        /\ \A r \in {Resolve(inst), ResolveReadOnly(inst)} :
             /\ r.evalCalls =
                  (IF ValidHit(evalCache, validPaths, CandidatesOf(inst)[1]) THEN 0 ELSE 1)
             /\ r.rootWrites = (IF inst.flakeRef.isPath THEN 0 ELSE r.evalCalls)
             /\ r.root = (IF r.rootWrites = 1
                          THEN WrittenRoot(inst.flakeRef, RunWalk(FlakeLockFile, FlakeValidDeps,
                                                                  WalkStart).closure)
                          ELSE gcRoot)
        /\ \A r \in {toValue(inst, flakeOutputs, evalCache, validPaths, gcRoot)} :
             /\ r.evalCalls = 1
             /\ r.rootWrites = (IF inst.flakeRef.isPath THEN 0 ELSE 1)
             /\ r.root = (IF r.rootWrites = 1
                          THEN WrittenRoot(inst.flakeRef, RunWalk(FlakeLockFile, FlakeValidDeps,
                                                                  WalkStart).closure)
                          ELSE gcRoot)

\* a flake that is not a local path has just been resolved, successfully, and
\* the resolution wrote no root
ResolvedWithoutRootWitness ==
    /\ last.op = "toDerivations"
    /\ last.status = "ok"
    /\ ~last.flakeRef.isPath
    /\ last.rootWrites = 0

\* C5: the candidates are tried in the order prefixes . first attribute path,
\* then the attribute paths; the result comes from the earliest candidate that
\* is a valid cache hit or present in the outputs, absent candidates before it
\* having been passed over; the resolution fails with "does not provide
\* attribute" exactly when every candidate is absent.
EarliestViableCandidateWins ==
    \A inst \in FlakeInstallables :
        LET c == CandidatesOf(inst)
            Viable(k) == ValidHit(evalCache, validPaths, c[k]) \/ Present(c[k])
        IN  /\ \A r \in {Resolve(inst), ResolveReadOnly(inst)} :
                 /\ r.status = "notProvided" <=> \A k \in DOMAIN c : ~Viable(k)
                 /\ r.status # "notProvided" =>
                      /\ r.index \in DOMAIN c
                      /\ r.attrPath = c[r.index]
                      /\ Viable(r.index)
                      /\ \A j \in 1..(r.index - 1) : ~Viable(j)
                 /\ r.status = "ok" => r.drv = DrvAt(r.attrPath)
            /\ \A r \in {toValue(inst, flakeOutputs, evalCache, validPaths, gcRoot)} :
                 /\ r.status = "notProvided" <=> \A k \in DOMAIN c : ~Present(c[k])
                 /\ r.status # "notProvided" =>
                      /\ r.index \in DOMAIN c
                      /\ r.attrPath = c[r.index]
                      /\ Present(c[r.index])
                      /\ \A j \in 1..(r.index - 1) : ~Present(c[j])

\* a resolution has just passed over two absent candidates and taken the third
LaterCandidateWitness ==
    /\ last.op = "toDerivations"
    /\ last.status = "ok"
    /\ last.index = 3
    /\ last.attrPath = <<"y">>

====
